---- MODULE Spec2Model ----
(***************************************************************************)
(* A model of pyamg/aggregation/smooth.py: the energy-minimization         *)
(* prolongation smoother, its constraint projector (Satisfy_Constraints_   *)
(* CSR / _BSR) and the Jacobi prolongation smoother.                       *)
(*                                                                         *)
(* Floating-point numbers are modelled as exact extended rationals         *)
(* <<n, d>>: d > 0 and gcd(|n|, d) = 1 for a finite value, <<1, 0>> and    *)
(* <<-1, 0>> for +inf and -inf, <<0, 0>> for NaN, with the IEEE rules for  *)
(* the special values (numpy scalars divide by zero without raising).      *)
(* Rounding is not modelled.                                               *)
(*                                                                         *)
(* A sparse matrix is a sequence of rows of values.  scipy's products and  *)
(* binary operations drop zero results, so a CSR entry is stored iff its   *)
(* value differs from 0 (NaN and inf included) and a BSR block is stored   *)
(* iff one of its entries does; the Sparsity Pattern alone keeps its index *)
(* structure apart from its data.                                          *)
(***************************************************************************)
EXTENDS Integers, Sequences, FiniteSets, TLC

VARIABLES args, pc, T, D, Dinv, Sparsity_Pattern, BtBinv, R, P, AP, oldsum, i,
          resid, ret, proj

vars == <<args, pc, T, D, Dinv, Sparsity_Pattern, BtBinv, R, P, AP, oldsum, i,
          resid, ret, proj>>

----------------------------------------------------------------------------
(* Extended rational arithmetic (numpy float64, exact).                    *)

Abs(x) == IF x < 0 THEN -x ELSE x

Sgn(x) == IF x < 0 THEN -1 ELSE IF x > 0 THEN 1 ELSE 0

RECURSIVE GCD(_, _)
GCD(a, b) == IF b = 0 THEN a ELSE GCD(b, a % b)

Norm(n, d) ==
    IF d = 0 THEN <<Sgn(n), 0>>
    ELSE LET g == GCD(Abs(n), d) IN <<n \div g, d \div g>>

Zero == <<0, 1>>
One == <<1, 1>>
NaN == <<0, 0>>

IsNaN(x) == x = NaN
IsInf(x) == x[2] = 0 /\ x[1] # 0
IsFinite(x) == x[2] > 0

\* x != 0 as numpy evaluates it: true of NaN and of the infinities
NonZero(x) == x # Zero

Neg(x) == <<-x[1], x[2]>>

FAbs(x) == <<Abs(x[1]), x[2]>>

\* the sum over the least common denominator, to keep the integers small
FAdd(x, y) ==
    IF IsInf(x) /\ IsInf(y) THEN (IF x = y THEN x ELSE NaN)
    ELSE IF x[2] = 0 \/ y[2] = 0 THEN Norm(x[1] * y[2] + y[1] * x[2], 0)
    ELSE LET g == GCD(x[2], y[2])
         IN Norm(x[1] * (y[2] \div g) + y[1] * (x[2] \div g), (x[2] \div g) * y[2])

FSub(x, y) == FAdd(x, Neg(y))

\* the product, the common factors cancelled first
FMul(x, y) ==
    IF x[2] = 0 \/ y[2] = 0 THEN Norm(Sgn(x[1]) * Sgn(y[1]), 0)
    ELSE LET g1 == GCD(Abs(x[1]), y[2])
             g2 == GCD(Abs(y[1]), x[2])
         IN <<(x[1] \div g1) * (y[1] \div g2), (x[2] \div g2) * (y[2] \div g1)>>

\* x / y; a zero divisor is +0.0
FDiv(x, y) ==
    LET s == IF y[1] < 0 THEN -1 ELSE 1
    IN IF x[2] = 0 \/ y[2] = 0 \/ y[1] = 0
       THEN Norm(Sgn(x[1]) * y[2] * s, x[2] * Abs(y[1]))
       ELSE FMul(x, <<s * y[2], Abs(y[1])>>)

\* x > y as IEEE compares: false when either side is NaN
FGt(x, y) ==
    IF IsNaN(x) \/ IsNaN(y) THEN FALSE
    ELSE IF IsInf(x) THEN x[1] = 1 /\ y # x
    ELSE IF IsInf(y) THEN y[1] = -1
    ELSE LET g == GCD(x[2], y[2])
         IN x[1] * (y[2] \div g) > y[1] * (x[2] \div g)

\* a finite x >= 0 is < 10^(-e): n * 10^e < d, computed without overflow
RECURSIVE LtPow10(_, _, _)
LtPow10(n, d, e) ==
    IF e = 0 THEN n < d
    ELSE IF n > d \div 10 THEN FALSE
    ELSE LtPow10(n * 10, d, e - 1)

RECURSIVE FSumSeq(_)
FSumSeq(s) == IF s = <<>> THEN Zero ELSE FAdd(Head(s), FSumSeq(Tail(s)))

\* Python's builtin max over a sequence of floats: the first element, replaced
\* by each later element that compares greater (a leading NaN is never replaced,
\* a later NaN never chosen)
RECURSIVE PyMaxFrom(_, _)
PyMaxFrom(m, s) ==
    IF s = <<>> THEN m
    ELSE PyMaxFrom(IF FGt(Head(s), m) THEN Head(s) ELSE m, Tail(s))

PyMax(s) == PyMaxFrom(Head(s), Tail(s))

----------------------------------------------------------------------------
(* Matrices: a sequence of rows, each a sequence of values.                *)

NRows(M) == Len(M)
NCols(M) == IF M = <<>> THEN 0 ELSE Len(M[1])

\* the first k elements of s as a sequence built element by element
RECURSIVE Eager(_, _)
Eager(s, k) == IF k = 0 THEN <<>> ELSE Append(Eager(s, k - 1), s[k])

\* the sequence f(1), ..., f(n)
Vec(n, f(_)) == Eager([k \in 1..n |-> f(k)], n)

Mat(n, m, f(_, _)) == Vec(n, LAMBDA r : Vec(m, LAMBDA c : f(r, c)))

ZeroMat(n, m) == Mat(n, m, LAMBDA r, c : Zero)

\* sum of f(k) for k in 1..n
FSum(n, f(_)) == FSumSeq(Vec(n, f))

\* elementwise operations; scipy's binary operations work on the union of the
\* stored entries and drop zero results, which the dense form gives as well
MAdd(X, Y) == Vec(NRows(X), LAMBDA r : Vec(NCols(X), LAMBDA c : FAdd(X[r][c], Y[r][c])))
MSub(X, Y) == Vec(NRows(X), LAMBDA r : Vec(NCols(X), LAMBDA c : FSub(X[r][c], Y[r][c])))
MultiplyEW(X, Y) == Vec(NRows(X), LAMBDA r : Vec(NCols(X), LAMBDA c : FMul(X[r][c], Y[r][c])))
MNeg(X) == Vec(NRows(X), LAMBDA r : Vec(NCols(X), LAMBDA c : Neg(X[r][c])))
MAbs(X) == Vec(NRows(X), LAMBDA r : Vec(NCols(X), LAMBDA c : FAbs(X[r][c])))

\* X.sum()
MSumAll(X) == FSum(NRows(X), LAMBDA r : FSum(NCols(X), LAMBDA c : X[r][c]))

\* the rows, or columns, of the block that holds index x, for blocks of size b
BlockRange(x, b) == (((x - 1) \div b) * b + 1) .. (((x - 1) \div b) * b + b)

\* entry (r, c) is stored: its rb x cb block holds a nonzero.  CSR is the case
\* rb = cb = 1.
Stored(X, rb, cb, r, c) ==
    \E r2 \in BlockRange(r, rb), c2 \in BlockRange(c, cb) : NonZero(X[r2][c2])

\* X.nnz
Nnz(X, rb, cb) ==
    Cardinality({rc \in (1..NRows(X)) \X (1..NCols(X)) : Stored(X, rb, cb, rc[1], rc[2])})

\* alpha*X: every stored value is multiplied
ScalarMul(alpha, X, rb, cb) ==
    Vec(NRows(X), LAMBDA r : Vec(NCols(X), LAMBDA c : IF Stored(X, rb, cb, r, c) THEN FMul(alpha, X[r][c]) ELSE Zero))

\* X*Y for sparse X (blocks rb x kb) and sparse Y (blocks kb x cb): the products
\* of the stored blocks, each a dense product
SpMul(X, Y, rb, kb, cb) ==
    Vec(NRows(X), LAMBDA r : Vec(NCols(Y), LAMBDA c : FSum(NCols(X), LAMBDA k :
            IF Stored(X, rb, kb, r, k) /\ Stored(Y, kb, cb, k, c)
            THEN FMul(X[r][k], Y[k][c]) ELSE Zero)))

\* U*mat(B) for sparse U and dense B
SpMulDense(U, Bm, rb, cb) ==
    Vec(NRows(U), LAMBDA r : Vec(NCols(Bm), LAMBDA a : FSum(NCols(U), LAMBDA k :
            IF Stored(U, rb, cb, r, k) THEN FMul(U[r][k], Bm[k][a]) ELSE Zero)))

\* X.data.flatten(): the stored values block by block, each block row-major
DataPos(X, rb, cb, t) ==
    LET bsz == rb * cb
        nbc == NCols(X) \div cb
        blk == t \div bsz
        w == t % bsz
    IN <<(blk \div nbc) * rb + (w \div cb) + 1, (blk % nbc) * cb + (w % cb) + 1>>

DataFlat(X, rb, cb) ==
    LET all == Vec(NRows(X) * NCols(X), LAMBDA t : DataPos(X, rb, cb, t - 1))
        kept == SelectSeq(all, LAMBDA q : Stored(X, rb, cb, q[1], q[2]))
    IN Vec(Len(kept), LAMBDA t : X[kept[t][1]][kept[t][2]])

\* max(X.data.flatten().__abs__())
MaxAbsData(X, rb, cb) ==
    LET d == DataFlat(X, rb, cb) IN PyMax(Vec(Len(d), LAMBDA t : FAbs(d[t])))

\* the nonzero pattern of X
Pattern(X) == {rc \in (1..NRows(X)) \X (1..NCols(X)) : NonZero(X[rc[1]][rc[2]])}

----------------------------------------------------------------------------
(* The Local Gram Inverse Table.                                           *)

\* abs(Sigma[0]) < 1e-10 and (Sigma/Sigma[0]) > 1e-8: the exponents of the filters
AbsTolExp == 10
RelTolExp == 8

\* B as a dense matrix, and its dimensions
NullDimOf(Bm) == NCols(Bm)

\* the ascending column indices of row r of the pattern
RowCols(pat, r) == SelectSeq([c \in 1..NCols(pat) |-> c], LAMBDA c : pat[r][c])

\* Bi.T*Bi for Bi = B[colindx,:]
LocalGram(Bm, colindx) ==
    Vec(NullDimOf(Bm), LAMBDA a : Vec(NullDimOf(Bm), LAMBDA b : FSum(Len(colindx), LAMBDA t : FMul(Bm[colindx[t]][a], Bm[colindx[t]][b]))))

\* a finite x >= 0 is below, or not above, 10^(-e)
Tiny(x, e) == LtPow10(x[1], x[2], e)
NotAbove(x, e) == LtPow10(x[1], x[2] + 1, e)

\* mat(VT.T)*mat(Sigma*U.T) after the filtering of Sigma, for the symmetric
\* positive semidefinite G = Bi.T*Bi.  The singular values of G are its
\* eigenvalues, and the filtered factors give: 0 when Sigma[0] < 1e-10; the
\* inverse of G when every singular value is kept; G/Sigma[0]^2 when NullDim = 2
\* and Sigma[1] = 0, where Sigma[0] is the trace.  A singular value that is
\* filtered without being 0 is irrational in general and has no arm here: it
\* needs entries of B some 10^4 apart.
FilteredInverse(G) ==
    LET k == Len(G)
        tr == FAdd(G[1][1], G[k][k])
        det == FSub(FMul(G[1][1], G[k][k]), FMul(G[1][k], G[k][1]))
    IN CASE k = 1 /\ Tiny(G[1][1], AbsTolExp) -> <<<<Zero>>>>
         [] k = 1 /\ ~Tiny(G[1][1], AbsTolExp) -> <<<<FDiv(One, G[1][1])>>>>
         [] k = 2 /\ Tiny(tr, AbsTolExp) -> <<<<Zero, Zero>>, <<Zero, Zero>>>>
         [] k = 2 /\ ~Tiny(tr, AbsTolExp) /\ det = Zero ->
                Vec(2, LAMBDA a : Vec(2, LAMBDA b : FDiv(G[a][b], FMul(tr, tr))))
         [] k = 2 /\ ~Tiny(tr, AbsTolExp) /\ det # Zero
                 /\ ~NotAbove(FDiv(det, FMul(tr, tr)), RelTolExp) ->
                <<<<FDiv(G[2][2], det), FDiv(Neg(G[1][2]), det)>>,
                  <<FDiv(Neg(G[2][1]), det), FDiv(G[1][1], det)>>>>

\* one entry of BtBinv: zeros((NullDim,NullDim)) for an empty support
LocalInverse(Bm, colindx) ==
    IF Len(colindx) # 0 THEN FilteredInverse(LocalGram(Bm, colindx))
    ELSE ZeroMat(NullDimOf(Bm), NullDimOf(Bm))

\* the node of row r, and the first row of node n, for RowsPerBlock rows a node
NodeOf(r, RowsPerBlock) == ((r - 1) \div RowsPerBlock) + 1
FirstRow(n, RowsPerBlock) == (n - 1) * RowsPerBlock + 1

\* BSR_Get_Colindices(Sparsity_Pattern)[n]: the columns of node n's blocks,
\* block by block
Colindices(pat, RowsPerBlock, n) == RowCols(pat, FirstRow(n, RowsPerBlock))

\* BtBinv of the scalar path: one inverse for each row
BuildBtBinvCSR(pat, Bm) ==
    Vec(NRows(pat), LAMBDA r : LocalInverse(Bm, RowCols(pat, r)))

\* BtBinv of the block path: one inverse for each node
BuildBtBinvBSR(pat, Bm, RowsPerBlock) ==
    Vec(NRows(pat) \div RowsPerBlock, LAMBDA n : LocalInverse(Bm, Colindices(pat, RowsPerBlock, n)))

----------------------------------------------------------------------------
(* The Constraint Projector.                                               *)

\* UpdateLocal without the local inverse: Bi*UBi.T
UpdateLocalNoInverse(Bm, Binv, UBi, c) ==
    FSum(NullDimOf(Bm), LAMBDA a : FMul(Bm[c][a], UBi[a]))

\* (Bi*(BtBinv[i]*UBi.T)) at column c of the support, for the row UBi of UB
UpdateLocal(Bm, Binv, UBi, c) ==
    FSum(NullDimOf(Bm), LAMBDA a :
        FMul(Bm[c][a], FSum(NullDimOf(Bm), LAMBDA b : FMul(Binv[a][b], UBi[b]))))

\* Sparsity_Pattern.data[:] = 1.0
ResetData(SP) ==
    [SP EXCEPT !.data = Vec(NRows(SP.pat), LAMBDA r : Vec(NCols(SP.pat), LAMBDA c : IF SP.pat[r][c] THEN One ELSE Zero))]

\* Satisfy_Constraints_CSR that adds the update: U = U + Sparsity_Pattern
Satisfy_Constraints_CSR_Adds(U, SP, Bm, Binv) ==
    LET UB == SpMulDense(U, Bm, 1, 1)
        written == Mat(NRows(U), NCols(U), LAMBDA r, c :
                      IF Len(RowCols(SP.pat, r)) # 0 /\ SP.pat[r][c]
                      THEN FSum(NullDimOf(Bm), LAMBDA a :
                               FMul(Bm[c][a], FSum(NullDimOf(Bm), LAMBDA b :
                                   FMul(Binv[r][a][b], UB[r][b]))))
                      ELSE SP.data[r][c])
    IN [U |-> MAdd(U, written), Sparsity_Pattern |-> ResetData(SP)]

\* Satisfy_Constraints_CSR without Sparsity_Pattern.data[:] = 1.0
Satisfy_Constraints_CSR_NoReset(U, SP, Bm, Binv) ==
    LET UB == SpMulDense(U, Bm, 1, 1)
        written == Mat(NRows(U), NCols(U), LAMBDA r, c :
                      IF Len(RowCols(SP.pat, r)) # 0 /\ SP.pat[r][c]
                      THEN FSum(NullDimOf(Bm), LAMBDA a :
                               FMul(Bm[c][a], FSum(NullDimOf(Bm), LAMBDA b :
                                   FMul(Binv[r][a][b], UB[r][b]))))
                      ELSE SP.data[r][c])
    IN [U |-> MSub(U, written), Sparsity_Pattern |-> [SP EXCEPT !.data = written]]

\* Satisfy_Constraints_CSR: the returned U and the Sparsity_Pattern it leaves
Satisfy_Constraints_CSR(U, SP, Bm, Binv) ==
    LET UB == SpMulDense(U, Bm, 1, 1)
        written == Vec(NRows(U), LAMBDA r : Vec(NCols(U), LAMBDA c : IF Len(RowCols(SP.pat, r)) # 0 /\ SP.pat[r][c]
                      THEN UpdateLocal(Bm, Binv[r], UB[r], c)
                      ELSE SP.data[r][c]))
    IN [U |-> MSub(U, written), Sparsity_Pattern |-> ResetData(SP)]

\* Satisfy_Constraints_BSR, for U in blocks of RowsPerBlock x ColsPerBlock
Satisfy_Constraints_BSR(U, SP, Bm, Binv, RowsPerBlock, ColsPerBlock) ==
    LET UB == SpMulDense(U, Bm, RowsPerBlock, ColsPerBlock)
        written == Vec(NRows(U), LAMBDA r : Vec(NCols(U), LAMBDA c : IF Len(Colindices(SP.pat, RowsPerBlock, NodeOf(r, RowsPerBlock))) # 0
                         /\ SP.pat[r][c]
                      THEN UpdateLocal(Bm, Binv[NodeOf(r, RowsPerBlock)], UB[r], c)
                      ELSE SP.data[r][c]))
    IN [U |-> MSub(U, written), Sparsity_Pattern |-> ResetData(SP)]

----------------------------------------------------------------------------
(* jacobi_prolongation_smoother and the default smoother.                  *)

\* S.diagonal()
Diagonal(S) == Vec(NRows(S), LAMBDA r : S[r][r])

\* scale_rows(S, v, copy=True): row r of S times v[r]
scale_rows(S, v, rb, cb) ==
    Vec(NRows(S), LAMBDA r : Vec(NCols(S), LAMBDA c : IF Stored(S, rb, cb, r, c) THEN FMul(v[r], S[r][c]) ELSE Zero))

\* omega=4.0/3.0
omega == <<4, 3>>

\* jacobi_prolongation_smoother(S, T, omega), where rho is the value that
\* approximate_spectral_radius(D_inv_S) returns
jacobi_prolongation_smoother(S, Tm, om, rho, rb, cb) ==
    LET Dg == Diagonal(S)
        D_inv == Vec(Len(Dg), LAMBDA r : IF Dg[r] = Zero THEN Zero ELSE FDiv(One, Dg[r]))
        D_inv_S == ScalarMul(FDiv(om, rho), scale_rows(S, D_inv, rb, rb), rb, rb)
    IN MSub(Tm, SpMul(D_inv_S, Tm, rb, rb, cb))

\* pyamg.sa.sa_smoothed_prolongator(A, T): the Jacobi-style default
sa_smoothed_prolongator(Am, Tm, rho, rb, cb) ==
    jacobi_prolongation_smoother(Am, Tm, omega, rho, rb, cb)

----------------------------------------------------------------------------
(* energy_prolongation_smoother: the state of one call.                    *)
(*   args      the arguments; A.format and T.format are "csr", "bsr" or     *)
(*             "other", num_iters is an int when itersIsInt                 *)
(*   pc        the position in the function                                 *)
(*   T         the prolongator: its values, storage format and blocksize    *)
(*   ret       what the call returned                                       *)
(*   proj      the operand of a stand-alone use of the Constraint Projector *)

Unset == <<>>
NoMatrix == [data |-> <<>>, format |-> "none", blocksize |-> <<0, 0>>]
NoPattern == [pat |-> <<>>, data |-> <<>>]
NoProj == [U |-> <<>>, once |-> <<>>, twice |-> <<>>, n |-> 0]

csrflag == args.Aformat = "csr"

\* the blocks of the matrices of the call: 1 x 1 on the scalar path, where T is
\* converted to CSR, and A.blocksize[0] x T.blocksize[1] on the block path
numPDEs == IF csrflag THEN 1 ELSE args.Ablocksize
RB == numPDEs
CB == IF csrflag THEN 1 ELSE args.Tblocksize[2]

Nfine == NRows(args.T)
Ncoarse == NCols(args.T)
NullDim == NCols(args.B)

\* the loop condition with i <= num_iters
LoopCondOffByOne == i <= args.num_iters /\ FGt(resid, args.min_tol)

\* the loop condition (i < num_iters) and (resid > min_tol)
LoopCond == i < args.num_iters /\ FGt(resid, args.min_tol)

\* the tests of the inputs without the test of Atilde.nnz
Validate_SkipsAtilde ==
    /\ pc = "start"
    /\ IF ~args.itersIsInt THEN pc' = "raise_TypeError" /\ ret' = ret
       ELSE IF args.num_iters < 0 THEN pc' = "raise_TypeError" /\ ret' = ret
       ELSE IF FGt(args.min_tol, One) THEN pc' = "raise_TypeError" /\ ret' = ret
       ELSE IF ~csrflag /\ args.Aformat # "bsr" THEN pc' = "raise_TypeError" /\ ret' = ret
       ELSE IF args.Tformat # "bsr" THEN pc' = "raise_TypeError" /\ ret' = ret
       ELSE IF \/ Nnz(args.T, args.Tblocksize[1], args.Tblocksize[2]) = 0
               \/ Nnz(args.A, numPDEs, numPDEs) = 0
            THEN pc' = "returned" /\ ret' = T
       ELSE pc' = "valid" /\ ret' = ret
    /\ UNCHANGED <<args, T, D, Dinv, Sparsity_Pattern, BtBinv, R, P, AP, oldsum, i,
                   resid, proj>>

\* the tests of the inputs with the test of the nonzeros moved to the front
Validate_EmptinessFirst ==
    /\ pc = "start"
    /\ IF \/ Nnz(args.T, args.Tblocksize[1], args.Tblocksize[2]) = 0
          \/ Nnz(args.Atilde, 1, 1) = 0
          \/ Nnz(args.A, 1, 1) = 0
       THEN pc' = "returned" /\ ret' = T
       ELSE IF ~args.itersIsInt THEN pc' = "raise_TypeError" /\ ret' = ret
       ELSE IF args.num_iters < 0 THEN pc' = "raise_TypeError" /\ ret' = ret
       ELSE IF FGt(args.min_tol, One) THEN pc' = "raise_TypeError" /\ ret' = ret
       ELSE IF ~csrflag /\ args.Aformat # "bsr" THEN pc' = "raise_TypeError" /\ ret' = ret
       ELSE IF args.Tformat # "bsr" THEN pc' = "raise_TypeError" /\ ret' = ret
       ELSE pc' = "valid" /\ ret' = ret
    /\ UNCHANGED <<args, T, D, Dinv, Sparsity_Pattern, BtBinv, R, P, AP, oldsum, i,
                   resid, proj>>

\* lines 200-218: the tests of the inputs, in the order of the code
Validate ==
    /\ pc = "start"
    /\ IF ~args.itersIsInt THEN pc' = "raise_TypeError" /\ ret' = ret
       ELSE IF args.num_iters < 0 THEN pc' = "raise_TypeError" /\ ret' = ret
       ELSE IF FGt(args.min_tol, One) THEN pc' = "raise_TypeError" /\ ret' = ret
       ELSE IF ~csrflag /\ args.Aformat # "bsr" THEN pc' = "raise_TypeError" /\ ret' = ret
       ELSE IF args.Tformat # "bsr" THEN pc' = "raise_TypeError" /\ ret' = ret
       ELSE IF \/ Nnz(args.T, args.Tblocksize[1], args.Tblocksize[2]) = 0
               \/ Nnz(args.Atilde, 1, 1) = 0
               \/ Nnz(args.A, numPDEs, numPDEs) = 0
            THEN pc' = "returned" /\ ret' = T
       ELSE pc' = "valid" /\ ret' = ret
    /\ UNCHANGED <<args, T, D, Dinv, Sparsity_Pattern, BtBinv, R, P, AP, oldsum, i,
                   resid, proj>>

\* BSR_Get_Row(A, r)[1]: the column indices of the nonzeros of row r
BSR_Get_Row(Am, r) == SelectSeq([c \in 1..NCols(Am) |-> c], LAMBDA c : NonZero(Am[r][c]))

\* A.indptr[r] != A.indptr[r+1] for a CSR A
RowHasStored(Am, r) == \E c \in 1..NCols(Am) : Stored(Am, 1, 1, r, c)

\* the rows for which the loop over zero_rows raises
ZeroDiagNonzeroRow(Am, csr) ==
    {r \in 1..NRows(Am) :
        /\ Am[r][r] = Zero
        /\ IF csr THEN RowHasStored(Am, r) ELSE Len(BSR_Get_Row(Am, r)) > 0}

\* D without D[zero_rows] = 1.0
FixedDiagonal_NoFix(Am) == Vec(NRows(Am), LAMBDA r : Am[r][r])

\* D after D[zero_rows] = 1.0
FixedDiagonal(Am) ==
    Vec(NRows(Am), LAMBDA r : IF Am[r][r] = Zero THEN One ELSE Am[r][r])

\* spdiags([1.0/D], [0], Nfine, Nfine)
InverseDiagonal(Dg) ==
    Vec(Len(Dg), LAMBDA r : Vec(Len(Dg), LAMBDA c : IF r = c THEN FDiv(One, Dg[r]) ELSE Zero))

\* lines 238-259: D, the test of the rows with a zero diagonal, and Dinv
BuildDinv ==
    /\ pc = "valid"
    /\ IF ZeroDiagNonzeroRow(args.A, csrflag) # {}
       THEN /\ pc' = "raise_ValueError_diag"
            /\ D' = Diagonal(args.A)
            /\ Dinv' = Dinv
       ELSE /\ pc' = "dinv"
            /\ D' = FixedDiagonal(args.A)
            /\ Dinv' = InverseDiagonal(FixedDiagonal(args.A))
    /\ UNCHANGED <<args, T, Sparsity_Pattern, BtBinv, R, P, AP, oldsum, i, resid, ret, proj>>

\* UnAmal(Atilde, RowsPerBlock, ColsPerBlock): a dense block of ones for each
\* stored entry
UnAmal(At, rpb, cpb) ==
    Vec(NRows(At) * rpb, LAMBDA r : Vec(NCols(At) * cpb, LAMBDA c : IF NonZero(At[NodeOf(r, rpb)][NodeOf(c, cpb)]) THEN One ELSE Zero))

\* the Sparsity Pattern of a product of absolute values, its data set to 1.0
PatternOf(M, rb, cb) ==
    ResetData([pat |-> Vec(NRows(M), LAMBDA r : Vec(NCols(M), LAMBDA c : Stored(M, rb, cb, r, c))),
               data |-> M])

\* lines 263-277: the Sparsity Pattern; on the scalar path T becomes CSR, and
\* T.blocksize goes on holding blocks, the blocksize T had
BuildPattern ==
    /\ pc = "dinv"
    /\ pc' = "pattern"
    /\ IF ~csrflag
       THEN /\ Sparsity_Pattern' =
                 PatternOf(SpMul(MAbs(UnAmal(args.Atilde, numPDEs, numPDEs)),
                                 MAbs(T.data), RB, RB, CB), RB, CB)
            /\ T' = T
       ELSE /\ Sparsity_Pattern' =
                 PatternOf(SpMul(MAbs(args.Atilde), MAbs(T.data), 1, 1, 1), 1, 1)
            /\ T' = [T EXCEPT !.format = "csr"]
    /\ UNCHANGED <<args, D, Dinv, BtBinv, R, P, AP, oldsum, i, resid, ret, proj>>

\* lines 295-373: the table of the local inverses
BuildBtBinv ==
    /\ pc = "pattern"
    /\ pc' = "gram"
    /\ BtBinv' = IF csrflag THEN BuildBtBinvCSR(Sparsity_Pattern.pat, args.B)
                 ELSE BuildBtBinvBSR(Sparsity_Pattern.pat, args.B, RB)
    /\ UNCHANGED <<args, T, D, Dinv, Sparsity_Pattern, R, P, AP, oldsum, i, resid, ret, proj>>

\* the Constraint Projector of the path taken
Satisfy_Constraints(U, SP) ==
    IF csrflag THEN Satisfy_Constraints_CSR(U, SP, args.B, BtBinv)
    ELSE Satisfy_Constraints_BSR(U, SP, args.B, BtBinv, RB, CB)

\* the projector without X.multiply(Sparsity_Pattern) before it
MaskAndProject_NoMask(X, SP) == Satisfy_Constraints(X, SP)

\* X.multiply(Sparsity_Pattern), then the projector
MaskAndProject(X, SP) == Satisfy_Constraints(MultiplyEW(X, SP.data), SP)

\* the estimates approximate_spectral_radius may return
RhoVals == {<<1, 1>>, <<2, 1>>}

\* the initial residual, with a fallback that returns T as it is
InitialResidual_ReturnsT ==
    /\ pc = "gram"
    /\ LET res == MaskAndProject(SpMul(MNeg(args.A), T.data, RB, RB, CB), Sparsity_Pattern)
       IN /\ R' = res.U
          /\ Sparsity_Pattern' = res.Sparsity_Pattern
          /\ IF Nnz(res.U, RB, CB) = 0
             THEN /\ ret' = T
                  /\ pc' = "returned"
                  /\ UNCHANGED <<T, resid, i>>
             ELSE /\ resid' = MaxAbsData(res.U, RB, CB)
                  /\ i' = 0
                  /\ pc' = "loop"
                  /\ UNCHANGED <<T, ret>>
    /\ UNCHANGED <<args, D, Dinv, BtBinv, P, AP, oldsum, proj>>

\* lines 381-403: the initial residual, the fallback when it is empty
InitialResidual ==
    /\ pc = "gram"
    /\ LET res == MaskAndProject(SpMul(MNeg(args.A), T.data, RB, RB, CB), Sparsity_Pattern)
       IN /\ R' = res.U
          /\ Sparsity_Pattern' = res.Sparsity_Pattern
          /\ IF Nnz(res.U, RB, CB) = 0
             THEN /\ \E rho \in RhoVals :
                        T' = [T EXCEPT !.data = sa_smoothed_prolongator(args.A, T.data, rho, RB, CB)]
                  /\ ret' = T'
                  /\ pc' = "returned"
                  /\ UNCHANGED <<resid, i>>
             ELSE /\ resid' = MaxAbsData(res.U, RB, CB)
                  /\ i' = 0
                  /\ pc' = "loop"
                  /\ UNCHANGED <<T, ret>>
    /\ UNCHANGED <<args, D, Dinv, BtBinv, P, AP, oldsum, proj>>

\* the end of an iteration: i += 1 and resid = max(R.data.flatten().__abs__()),
\* where max raises ValueError for an R without stored entries
EndOfIteration(Rnew) ==
    /\ i' = i + 1
    /\ IF Nnz(Rnew, RB, CB) = 0
       THEN pc' = "raise_ValueError_max" /\ resid' = resid
       ELSE pc' = "loop" /\ resid' = MaxAbsData(Rnew, RB, CB)

\* lines 406-439: one iteration of the CG loop
CGStep ==
    /\ pc = "loop"
    /\ args.SPD
    /\ LoopCond
    /\ LET Z == SpMul(Dinv, R, RB, RB, CB)
           newsum == MSumAll(MultiplyEW(R, Z))
           beta == FDiv(newsum, oldsum)
           Pnew == IF i = 0 THEN Z ELSE MAdd(Z, ScalarMul(beta, P, RB, CB))
           res == MaskAndProject(SpMul(args.A, Pnew, RB, RB, CB), Sparsity_Pattern)
           APnew == res.U
           alpha == FDiv(newsum, MSumAll(MultiplyEW(Pnew, APnew)))
           Rnew == MSub(R, ScalarMul(alpha, APnew, RB, CB))
       IN /\ P' = Pnew
          /\ AP' = APnew
          /\ oldsum' = newsum
          /\ Sparsity_Pattern' = res.Sparsity_Pattern
          /\ T' = [T EXCEPT !.data = MAdd(T.data, ScalarMul(alpha, Pnew, RB, CB))]
          /\ R' = Rnew
          /\ EndOfIteration(Rnew)
    /\ UNCHANGED <<args, D, Dinv, BtBinv, ret, proj>>

\* lines 444-471: one iteration of the min-res loop
MinResStep ==
    /\ pc = "loop"
    /\ ~args.SPD
    /\ LoopCond
    /\ LET res == MaskAndProject(SpMul(args.A, R, RB, RB, CB), Sparsity_Pattern)
           Pnew == res.U
           numer == MSumAll(MultiplyEW(Pnew, R))
           denom == MSumAll(MultiplyEW(Pnew, Pnew))
           alpha == FDiv(numer, denom)
           Rnew == MSub(R, ScalarMul(alpha, Pnew, RB, CB))
       IN /\ P' = Pnew
          /\ Sparsity_Pattern' = res.Sparsity_Pattern
          /\ T' = [T EXCEPT !.data = MAdd(T.data, ScalarMul(alpha, R, RB, CB))]
          /\ R' = Rnew
          /\ EndOfIteration(Rnew)
    /\ UNCHANGED <<args, D, Dinv, BtBinv, AP, oldsum, ret, proj>>

\* lines 478-490: T back to BSR on the scalar path, and the return
LoopExit ==
    /\ pc = "loop"
    /\ ~LoopCond
    /\ T' = IF csrflag THEN [T EXCEPT !.format = "bsr"] ELSE T
    /\ ret' = T'
    /\ pc' = "returned"
    /\ UNCHANGED <<args, D, Dinv, Sparsity_Pattern, BtBinv, R, P, AP, oldsum, i, resid, proj>>

Next ==
    \/ Validate
    \/ BuildDinv
    \/ BuildPattern
    \/ BuildBtBinv
    \/ InitialResidual
    \/ CGStep
    \/ MinResStep
    \/ LoopExit

----------------------------------------------------------------------------
(* The calls considered.                                                   *)

\* the largest num_iters
MaxIters == 2

\* an integer matrix as a matrix of values
Q(M) == Mat(Len(M), Len(M[1]), LAMBDA r, c : <<M[r][c], 1>>)

\* operators: every 0/1 matrix, and signed ones: a Poisson matrix, a singular
\* symmetric one, one whose square is 0, an indefinite and a triangular one
ABits == {0, 1}
ASet == {Q(<<<<a, b>>, <<c, d>>>>) : a \in ABits, b \in ABits, c \in ABits, d \in ABits}
        \cup {Q(<<<<2, -1>>, <<-1, 2>>>>), Q(<<<<1, -1>>, <<-1, 1>>>>),
              Q(<<<<1, 1>>, <<-1, -1>>>>), Q(<<<<1, 0>>, <<0, -1>>>>),
              Q(<<<<1, 2>>, <<0, 1>>>>)}

TSet == {Q(<<<<0, 0>>, <<0, 0>>>>), Q(<<<<1, 0>>, <<1, 1>>>>), Q(<<<<1, 0>>, <<0, 1>>>>),
         Q(<<<<1, 1>>, <<1, 1>>>>), Q(<<<<1, 0>>, <<1, 0>>>>)}

\* strength matrices of the nodes: 2 x 2 for one row a node, 1 x 1 for two
AtildeSet(n) ==
    IF n = 2
    THEN {Q(<<<<0, 0>>, <<0, 0>>>>), Q(<<<<1, 0>>, <<0, 1>>>>), Q(<<<<1, 1>>, <<1, 1>>>>),
          Q(<<<<0, 1>>, <<1, 0>>>>)}
    ELSE {Q(<<<<0>>>>), Q(<<<<1>>>>)}

\* near-nullspace candidates: one vector, and two vectors of rank 1 and 2
BSet == {Q(<<<<1>>, <<1>>>>), Q(<<<<1>>, <<0>>>>), Q(<<<<0>>, <<0>>>>),
         Q(<<<<1, 1>>, <<1, 1>>>>), Q(<<<<1, 0>>, <<0, 1>>>>)}

MinTolVals == {<<0, 1>>, <<1, 2>>}

\* the storage of A and T: A.format, A.blocksize[0] (0 when A has none) and
\* T.blocksize; on the block path T's row-blocksize is A's
Layouts == {[A |-> "csr", ab |-> 0, tb |-> <<2, 1>>],
            [A |-> "bsr", ab |-> 1, tb |-> <<1, 1>>],
            [A |-> "bsr", ab |-> 2, tb |-> <<2, 1>>],
            [A |-> "bsr", ab |-> 2, tb |-> <<2, 2>>]}

NodesOf(l) == IF l.A = "bsr" THEN 2 \div l.ab ELSE 2

MkArgs(isint, n, tol, l, tf, a, t, at, b, spd) ==
    [itersIsInt |-> isint, num_iters |-> n, min_tol |-> tol, Aformat |-> l.A,
     Tformat |-> tf, Ablocksize |-> l.ab, Tblocksize |-> l.tb, A |-> a, T |-> t,
     Atilde |-> at, B |-> b, SPD |-> spd]

\* calls that pass the tests of the inputs
ValidArgs ==
    \E l \in Layouts, n \in 0..MaxIters, tol \in MinTolVals, a \in ASet, t \in TSet,
       b \in BSet, spd \in BOOLEAN :
        \E at \in AtildeSet(NodesOf(l)) :
            args = MkArgs(TRUE, n, tol, l, "bsr", a, t, at, b, spd)

\* calls with any num_iters, min_tol and formats, on a few matrices
AnyArgs ==
    \E l \in Layouts \cup {[A |-> "other", ab |-> 0, tb |-> <<2, 1>>]},
       isint \in BOOLEAN, n \in {-1, 0, 1}, tol \in {<<1, 2>>, <<1, 1>>, <<2, 1>>},
       tf \in {"bsr", "csr", "other"},
       a \in {Q(<<<<0, 0>>, <<0, 0>>>>), Q(<<<<2, -1>>, <<-1, 2>>>>)},
       t \in {Q(<<<<0, 0>>, <<0, 0>>>>), Q(<<<<1, 0>>, <<1, 1>>>>)} :
        \E at \in AtildeSet(NodesOf(l)) :
            args = MkArgs(isint, n, tol, l, tf, a, t, at, Q(<<<<1>>, <<1>>>>), TRUE)

Init ==
    /\ ValidArgs \/ AnyArgs
    /\ pc = "start"
    /\ T = [data |-> args.T, format |-> args.Tformat, blocksize |-> args.Tblocksize]
    /\ D = Unset
    /\ Dinv = Unset
    /\ Sparsity_Pattern = NoPattern
    /\ BtBinv = Unset
    /\ R = Unset
    /\ P = Unset
    /\ AP = Unset
    /\ oldsum = Zero
    /\ i = 0
    /\ resid = Zero
    /\ ret = NoMatrix
    /\ proj = NoProj

Spec == Init /\ [][Next]_vars

----------------------------------------------------------------------------
(* The Constraint Projector on its own: a U that conforms to a Sparsity    *)
(* Pattern, the table built from that pattern and B, and two applications. *)

\* the values of U's entries
UVals == {-1, 0, 1}

\* 2 x 3 patterns: any on the scalar path, whole blocks on the block path
ProjPatterns(l) ==
    {p \in [1..2 -> [1..3 -> BOOLEAN]] :
        \A r \in 1..2, c \in 1..3 :
            p[r][c] = \E r2 \in BlockRange(r, IF l.A = "csr" THEN 1 ELSE l.ab),
                         c2 \in BlockRange(c, IF l.A = "csr" THEN 1 ELSE l.tb[2]) : p[r2][c2]}

ProjLayouts == {[A |-> "csr", ab |-> 0, tb |-> <<2, 1>>],
                [A |-> "bsr", ab |-> 2, tb |-> <<2, 1>>],
                [A |-> "bsr", ab |-> 1, tb |-> <<1, 3>>]}

\* near-nullspace candidates on 3 coarse points: one vector, two vectors
ProjBSet == {Q(<<<<1>>, <<1>>, <<1>>>>), Q(<<<<1>>, <<0>>, <<2>>>>), Q(<<<<0>>, <<0>>, <<0>>>>),
             Q(<<<<1, 0>>, <<0, 1>>, <<1, 1>>>>), Q(<<<<1, 1>>, <<1, 1>>, <<2, 2>>>>),
             Q(<<<<1, 2>>, <<0, 0>>, <<-1, 1>>>>)}

ProjInit ==
    /\ \E l \in ProjLayouts, b \in ProjBSet :
        \E p \in ProjPatterns(l), u \in [1..2 -> [1..3 -> UVals]] :
            /\ \A r \in 1..2, c \in 1..3 : u[r][c] # 0 => p[r][c]
            /\ args = MkArgs(TRUE, 0, Zero, l, "bsr", ZeroMat(2, 2), ZeroMat(2, 3),
                             ZeroMat(2, 2), b, TRUE)
            /\ Sparsity_Pattern = ResetData([pat |-> Mat(2, 3, LAMBDA r, c : p[r][c]),
                                             data |-> <<>>])
            /\ proj = [U |-> Mat(2, 3, LAMBDA r, c : <<u[r][c], 1>>), once |-> <<>>,
                       twice |-> <<>>, n |-> 0]
    /\ BtBinv = IF csrflag THEN BuildBtBinvCSR(Sparsity_Pattern.pat, args.B)
                ELSE BuildBtBinvBSR(Sparsity_Pattern.pat, args.B, RB)
    /\ pc = "projector"
    /\ T = NoMatrix
    /\ D = Unset
    /\ Dinv = Unset
    /\ R = Unset
    /\ P = Unset
    /\ AP = Unset
    /\ oldsum = Zero
    /\ i = 0
    /\ resid = Zero
    /\ ret = NoMatrix

\* the projector applied to U
ProjectOnce ==
    /\ pc = "projector"
    /\ proj.n = 0
    /\ LET res == Satisfy_Constraints(proj.U, Sparsity_Pattern)
       IN /\ proj' = [proj EXCEPT !.once = res.U, !.n = 1]
          /\ Sparsity_Pattern' = res.Sparsity_Pattern
    /\ UNCHANGED <<args, pc, T, D, Dinv, BtBinv, R, P, AP, oldsum, i, resid, ret>>

\* the projector applied to its own output
ProjectAgain ==
    /\ pc = "projector"
    /\ proj.n = 1
    /\ LET res == Satisfy_Constraints(proj.once, Sparsity_Pattern)
       IN /\ proj' = [proj EXCEPT !.twice = res.U, !.n = 2]
          /\ Sparsity_Pattern' = res.Sparsity_Pattern
    /\ UNCHANGED <<args, pc, T, D, Dinv, BtBinv, R, P, AP, oldsum, i, resid, ret>>

ProjNext == ProjectOnce \/ ProjectAgain

SpecProj == ProjInit /\ [][ProjNext]_vars

----------------------------------------------------------------------------
(* Properties.                                                             *)

\* X x B as a dense product
TimesB(X) ==
    Mat(NRows(X), NullDim, LAMBDA r, a :
        FSum(NCols(X), LAMBDA c : FMul(X[r][c], args.B[c][a])))

IsZeroMatrix(X) == \A r \in 1..NRows(X), c \in 1..NCols(X) : X[r][c] = Zero

\* the Gram matrix of the support of row r (of its node on the block path)
GramOfRow(r) ==
    LocalGram(args.B, IF csrflag THEN RowCols(Sparsity_Pattern.pat, r)
                      ELSE Colindices(Sparsity_Pattern.pat, RB, NodeOf(r, RB)))

C8_ProjectorIdempotent ==
    proj.n = 2 => proj.twice = proj.once

\* C8 witness: the projector was applied twice, and its first application
\* changed U and left a matrix that is not 0.
C8_Witness ==
    /\ proj.n = 2
    /\ proj.once # proj.U
    /\ ~IsZeroMatrix(proj.once)

\* the call passes the tests of its arguments
ValidCall ==
    /\ args.itersIsInt
    /\ args.num_iters >= 0
    /\ ~FGt(args.min_tol, One)
    /\ args.Aformat \in {"csr", "bsr"}
    /\ args.Tformat = "bsr"

\* A, T or Atilde has no stored nonzero
Degenerate ==
    IsZeroMatrix(args.A) \/ IsZeroMatrix(args.T) \/ IsZeroMatrix(args.Atilde)

\* none of the preconditioner, the Sparsity Pattern, the table and the residual
\* has been computed, and no iteration has run
NothingComputed ==
    /\ D = Unset /\ Dinv = Unset /\ Sparsity_Pattern = NoPattern /\ BtBinv = Unset
    /\ R = Unset /\ P = Unset /\ AP = Unset /\ i = 0

\* the tentative prolongator as it was passed
TentativeT == [data |-> args.T, format |-> "bsr", blocksize |-> args.Tblocksize]

\* the call has ended in an error
Raised == pc \in {"raise_TypeError", "raise_ValueError_diag", "raise_ValueError_max"}

\* the loop was reached: the setup is done and the initial residual has entries
InLoop == pc = "loop"
ReturnedFromLoop == pc = "returned" /\ R # Unset /\ ~IsZeroMatrix(R)
ReturnedFromFallback == pc = "returned" /\ R # Unset /\ IsZeroMatrix(R)

\* the Sparsity Pattern as a set of positions, and as built at setup
PatternSet == {rc \in (1..Nfine) \X (1..Ncoarse) : Sparsity_Pattern.pat[rc[1]][rc[2]]}

StrengthReach(r, c) ==
    \E k \in 1..Nfine :
        /\ args.Atilde[NodeOf(r, RB)][NodeOf(k, RB)] # Zero
        /\ \E k2 \in BlockRange(k, RB), c2 \in BlockRange(c, CB) : args.T[k2][c2] # Zero

SetupPattern ==
    [pat |-> Mat(Nfine, Ncoarse, LAMBDA r, c : StrengthReach(r, c)),
     data |-> Mat(Nfine, Ncoarse, LAMBDA r, c : IF StrengthReach(r, c) THEN One ELSE Zero)]

\* C4: a call that passes validation with A, T or Atilde empty raises nothing,
\* sets up and iterates nothing, and returns the tentative prolongator as passed.
C4_DegenerateReturnsT ==
    (ValidCall /\ Degenerate /\ pc # "start") =>
        /\ pc = "returned"
        /\ ret = TentativeT
        /\ NothingComputed

\* C4 witness: a valid call returned with only Atilde empty.
C4_Witness ==
    /\ pc = "returned"
    /\ ValidCall
    /\ IsZeroMatrix(args.Atilde)
    /\ ~IsZeroMatrix(args.A)
    /\ ~IsZeroMatrix(args.T)

\* C5: a call with a non-integer or negative num_iters, min_tol > 1, an A that
\* is neither CSR nor BSR or a T that is not BSR ends in the TypeError, returns
\* nothing and has computed nothing, also when A, T or Atilde is empty.
C5_InvalidArgumentsRaise ==
    (~ValidCall /\ pc # "start") =>
        /\ pc = "raise_TypeError"
        /\ ret = NoMatrix
        /\ NothingComputed

\* C5 witness: min_tol > 1 alone is wrong, A is empty, and the call raised.
C5_Witness ==
    /\ pc = "raise_TypeError"
    /\ args.itersIsInt /\ args.num_iters >= 0
    /\ args.Aformat \in {"csr", "bsr"} /\ args.Tformat = "bsr"
    /\ FGt(args.min_tol, One)
    /\ IsZeroMatrix(args.A)

\* row r of A has a zero diagonal entry and a nonzero entry
ZeroDiagonalInNonzeroRow(r) ==
    args.A[r][r] = Zero /\ \E c \in 1..Nfine : args.A[r][c] # Zero

C7_EmptyResidualFallback ==
    (R # Unset /\ i = 0 /\ IsZeroMatrix(R) /\ pc # "gram") =>
        /\ pc = "returned"
        /\ P = Unset /\ AP = Unset
        /\ \E rho \in RhoVals :
              ret.data = sa_smoothed_prolongator(args.A, args.T, rho, RB, CB)

\* C7 witness: the fallback returned a prolongator that differs from the
\* tentative one.
C7_Witness ==
    /\ ReturnedFromFallback
    /\ ret.data # args.T

\* the states after setup and after every iteration, and the normal return
AfterSetupOrIteration == InLoop \/ pc = "raise_ValueError_max" \/ ReturnedFromLoop

\* C1: in both branches, after setup and after every iteration R x B = 0 and
\* T x B = T_tentative x B, so the returned T has T x B = T_tentative x B.
C1_NullspacePreserved ==
    AfterSetupOrIteration =>
        /\ IsZeroMatrix(TimesB(R))
        /\ TimesB(T.data) = TimesB(args.T)

\* C1 with finite values only: the same, wherever no division by zero has
\* turned a step length into NaN or an infinity
AllFinite(X) == \A r \in 1..NRows(X), c \in 1..NCols(X) : IsFinite(X[r][c])

C1_FiniteNullspacePreserved ==
    (AfterSetupOrIteration /\ AllFinite(T.data) /\ AllFinite(R)) =>
        /\ IsZeroMatrix(TimesB(R))
        /\ TimesB(T.data) = TimesB(args.T)

\* the nonzero pattern of X lies in the Sparsity Pattern
InPattern(X) == Pattern(X) \subseteq PatternSet

C10_ScratchReset ==
    (pc \in {"gram", "loop"}) =>
        /\ Sparsity_Pattern = SetupPattern
        /\ BtBinv = IF csrflag THEN BuildBtBinvCSR(SetupPattern.pat, args.B)
                    ELSE BuildBtBinvBSR(SetupPattern.pat, args.B, RB)

\* C10 witness: on the scalar path the projector has run twice, the second
\* time leaving an AP that is not 0, and another masking is ahead.
C10_Witness ==
    /\ InLoop
    /\ csrflag
    /\ i >= 1
    /\ args.SPD
    /\ ~IsZeroMatrix(AP)
    /\ LoopCond

\* m is the maximum absolute value of the stored entries of X
IsMaxAbs(m, X) ==
    /\ \E r \in 1..NRows(X), c \in 1..NCols(X) : X[r][c] # Zero /\ FAbs(X[r][c]) = m
    /\ \A r \in 1..NRows(X), c \in 1..NCols(X) : ~FGt(FAbs(X[r][c]), m)

\* what C9 says of a state: the count stays within num_iters, the residual norm
\* is the largest absolute entry of a finite R, and with num_iters = 0 a call
\* that reached the loop returns the tentative prolongator's values
C9_StateBound ==
    /\ (pc \in {"loop", "returned", "raise_ValueError_max"}) => i <= args.num_iters
    /\ (InLoop /\ AllFinite(R)) => IsMaxAbs(resid, R)
    /\ (ReturnedFromLoop /\ args.num_iters = 0) => (i = 0 /\ ret.data = args.T)

\* what C9 says of a step: the count changes only in an iteration, which starts
\* with count < num_iters and residual norm > min_tol and adds exactly 1; T and
\* R change in the loop only with the count
C9_StepBound ==
    /\ (i' # i) =>
          /\ pc = "loop"
          /\ i < args.num_iters
          /\ FGt(resid, args.min_tol)
          /\ i' = i + 1
    /\ (pc = "loop" /\ (T'.data # T.data \/ R' # R)) => i' = i + 1

ReturnsBlockStorage == ret.format = "bsr" /\ ret.blocksize = args.Tblocksize

\* C11: every call that returns a prolongator (the degenerate-input return,
\* the empty-residual fallback, the exit after the loop) returns it in block
\* storage with the blocksize of the input T; the default smoother of the
\* fallback keeps the storage of the T it is handed, so the fallback's result
\* is in block storage only if the T handed on is.
C11_BlockStorageOnExit ==
    (pc = "returned" /\ ValidCall) => ReturnsBlockStorage

\* C11 without the fallback: the degenerate-input return and the exit after
\* the loop return block storage with the blocksize of the input T, and on
\* the scalar path T is in scalar storage from the Sparsity Pattern's setup
\* to the exit.
C11_BlockStorageOutsideFallback ==
    /\ (pc = "returned" /\ ValidCall /\ ~ReturnedFromFallback) => ReturnsBlockStorage
    /\ (pc = "returned" /\ ValidCall /\ ~csrflag) => ReturnsBlockStorage
    /\ (pc \in {"pattern", "gram", "loop"}) =>
          T.format = (IF csrflag THEN "csr" ELSE "bsr")

\* C11 on the scalar path after iterations: the loop has run and the call has
\* returned T converted back to block storage.
C11_Witness ==
    /\ ReturnedFromLoop
    /\ csrflag
    /\ i >= 1
    /\ ReturnsBlockStorage

====
